---- MODULE Spec2Model ----
(***************************************************************************)
(* State-machine model of the real-time layer of bachelor-league:          *)
(*   - ConnectionManager      (src/backend/websocket_manager.py)           *)
(*   - BackgroundTaskManager  (src/backend/background_tasks.py)            *)
(* The two components are checked under separate specifications, Spec for  *)
(* the connection manager and SpecTasks for the task runner.               *)
(*                                                                         *)
(* asyncio runs one coroutine at a time; a handler is atomic up to its     *)
(* first real suspension.  The per-subscriber sends of broadcast_to_show   *)
(* and the awaits of BackgroundTaskManager.stop are modelled as separate   *)
(* steps; the short handlers (connect, subscribe, authenticate, ...) are   *)
(* modelled as one step each.  Wall-clock time is counted in whole seconds *)
(* for the connection manager and in whole minutes for the task runner.    *)
(***************************************************************************)
EXTENDS Integers, Sequences, FiniteSets, TLC

None == "None"

\* ---------------------------------------------------------------- bounds
ConnIds == {"c1", "c2"}
ConnOrder == <<"c1", "c2">>
Shows == {"s1", "s2"}
Users == {"u1", "u2"}
TaskIds == {"t1", "t2"}
TaskOrder == <<"t1", "t2">>
MaxTime == 1
MaxBroadcasts == 1
MaxClock == 7
MaxSends == 15
MaxSweepTime == 2
MaxOrderTime == 2

\* ------------------------------------------------------ program constants
SecondsPerMinute == 60
RateLimitCleanupSeconds == 2
StaleSeconds == 300
MaxFailures == 3
RateLimitPerSecond == 10

VARIABLES
    active_connections,   \* keys of ConnectionManager.active_connections
    subscribed_shows,     \* Connection.subscribed_shows, per connection id
    user_id,              \* Connection.user_id, per connection id
    last_ping,            \* Connection.last_ping, per connection id
    show_subscribers,     \* defaultdict show id -> set of connection ids
    user_connections,     \* dict user id -> connection id
    live_stats,           \* dict show id -> LiveStats
    rate_limits,          \* dict "conn:second" -> timestamp
    now,                  \* datetime.utcnow(), in seconds
    alive,                \* whether a connection's transport still accepts sends
    used,                 \* connection ids (uuid4) handed out so far
    bcast,                \* the broadcast_to_show call in progress
    n_broadcasts,         \* number of broadcast_to_show calls made so far
    meter,                \* per connection, sends attempted and delivered this second
    tasks,                \* BackgroundTaskManager.tasks: id -> ScheduledTask
    running_tasks,        \* keys of BackgroundTaskManager.running_tasks, in insertion order
    task_results,         \* BackgroundTaskManager.task_results: id -> TaskResult.status
    executions,           \* per task, its asyncio tasks created and not yet finished
    is_running,           \* BackgroundTaskManager.is_running
    scheduler_task,       \* "none", "alive" or "cancelled"
    clock,                \* datetime.utcnow() of the task runner, in minutes
    stop,                 \* the stop() call in progress
    streak,               \* per task, failures recorded since its last success or enable_task
    manual,               \* tasks whose job is running in a direct call of a trigger_* method
    pinged_at,            \* per connection, when its last inbound ping arrived
    last_pong,            \* per connection, the last pong written to its transport
    hb_delivered,         \* <<connection, show>> pairs served by the last _update_live_stats pass
    schedule_type,        \* ScheduledTask.schedule_type, per task id
    shutdown,             \* the shutdown() call in progress
    cleanup_task,         \* ConnectionManager.cleanup_task: "running" or "cancelled"
    stats_task,           \* ConnectionManager.stats_task: "running" or "cancelled"
    calls,                \* two broadcast_to_show calls A and B that may overlap
    inbox                 \* per connection, the calls whose message its transport took, in order

wsvars == <<active_connections, subscribed_shows, user_id, last_ping,
            show_subscribers, user_connections, live_stats, rate_limits,
            now, alive, used, bcast, n_broadcasts, meter>>

taskvars == <<tasks, running_tasks, task_results, executions, is_running,
              scheduler_task, clock, stop, streak>>

mgrvars == <<shutdown, cleanup_task, stats_task>>

newvars == <<schedule_type, mgrvars, calls, inbox>>

auxvars == <<manual, pinged_at, last_pong, hb_delivered, newvars>>

vars == <<wsvars, taskvars, auxvars>>

\* ------------------------------------------------------- manager as a value
EmptyMap == [x \in {} |-> None]

Mgr ==
    [active_connections |-> active_connections,
     subscribed_shows |-> subscribed_shows,
     user_id |-> user_id,
     last_ping |-> last_ping,
     show_subscribers |-> show_subscribers,
     user_connections |-> user_connections,
     live_stats |-> live_stats,
     rate_limits |-> rate_limits]

\* Writes the manager back; a transport is tracked only while its connection is
\* registered.
SetMgr(m) ==
    /\ active_connections' = m.active_connections
    /\ subscribed_shows' = m.subscribed_shows
    /\ user_id' = m.user_id
    /\ last_ping' = m.last_ping
    /\ show_subscribers' = m.show_subscribers
    /\ user_connections' = m.user_connections
    /\ live_stats' = m.live_stats
    /\ rate_limits' = m.rate_limits
    /\ alive' = [c \in ConnIds |-> alive[c] \/ c \notin m.active_connections]

\* self.show_subscribers[show_id] on a defaultdict(set): a read creates the key
Subscribers(ss, T) == IF T \in DOMAIN ss THEN ss[T] ELSE {}

PutKey(f, k, v) == [x \in DOMAIN f \cup {k} |-> IF x = k THEN v ELSE f[x]]

DropKey(f, k) == [x \in DOMAIN f \ {k} |-> f[x]]

\* LiveStats(show_id=...): every counter starts at zero
LiveStats ==
    [viewers_count |-> 0, active_predictions |-> 0,
     total_points_awarded |-> 0, recent_events |-> 0]

\* the viewer count stored after a change of the subscriber set
ViewerCount(subscribers) == Cardinality(subscribers)

SetViewers(stats, T, ss) ==
    IF T \in DOMAIN stats
    THEN [stats EXCEPT ![T].viewers_count = ViewerCount(Subscribers(ss, T))]
    ELSE stats

\* ----------------------------------------------------------------- messages
\* A message is [type, stats, points, show_id, timestamp].  stats is <<>> when
\* the message has no "stats" entry, or <<r>> with r the asdict() of a LiveStats
\* record, which carries updated_at, a datetime.  show_id is None and timestamp
\* is <<>> until broadcast_to_show stamps them.
Msg(type, stats, points) ==
    [type |-> type, stats |-> stats, points |-> points,
     show_id |-> None, timestamp |-> <<>>]

\* json.dumps raises TypeError on a datetime value
JsonSerializable(msg) == msg.stats = <<>>

\* --------------------------------------------------------- _check_rate_limit
RateLimitKey(c, t) == <<c, t % SecondsPerMinute>>

RateLimitKeys(rl) == {<<e.conn, e.second>> : e \in rl}

RateLimited(rl, c, t) == RateLimitKey(c, t) \in RateLimitKeys(rl)

CheckRateLimit(m, c, t) ==
    IF RateLimited(m.rate_limits, c, t)
    THEN [ok |-> FALSE, m |-> m]
    ELSE LET added == m.rate_limits \cup
                        {[conn |-> c, second |-> t % SecondsPerMinute, ts |-> t]}
             cutoff == t - RateLimitCleanupSeconds
             kept == {e \in added : ~(e.ts < cutoff)}
         IN [ok |-> TRUE, m |-> [m EXCEPT !.rate_limits = kept]]

\* ------------------------------------------------------- _cleanup_connection
RECURSIVE DiscardFromShows(_, _, _, _)
DiscardFromShows(ss, stats, shows, c) ==
    IF shows = {} THEN [show_subscribers |-> ss, live_stats |-> stats]
    ELSE LET T == CHOOSE x \in shows : TRUE
             ss2 == PutKey(ss, T, Subscribers(ss, T) \ {c})
         IN DiscardFromShows(ss2, SetViewers(stats, T, ss2), shows \ {T}, c)

PopUser(users, u) == IF u # None /\ u \in DOMAIN users THEN DropKey(users, u) ELSE users

\* "del self.active_connections[connection_id]": the Connection object is gone
DeleteConnection(m, c) ==
    [m EXCEPT !.active_connections = m.active_connections \ {c},
              !.subscribed_shows[c] = {},
              !.user_id[c] = None,
              !.last_ping[c] = 0]

\* the body of "if connection_id in self.active_connections"
CleanupRegistered(m, c) ==
    LET d == DiscardFromShows(m.show_subscribers, m.live_stats,
                              m.subscribed_shows[c], c)
    IN DeleteConnection(
         [m EXCEPT !.show_subscribers = d.show_subscribers,
                   !.live_stats = d.live_stats,
                   !.user_connections = PopUser(m.user_connections, m.user_id[c])],
         c)

\* mutant: the connection record is deleted but stays in the subscriber sets
CleanupConnectionKeepsSubscribers(m, c) ==
    IF c \notin m.active_connections THEN m
    ELSE DeleteConnection(m, c)

\* mutant: no membership guard, every viewer count is decremented
CleanupConnectionUnguarded(m, c) ==
    IF c \notin m.active_connections
    THEN [m EXCEPT !.live_stats =
                     [T \in DOMAIN @ |-> [@[T] EXCEPT !.viewers_count = @ - 1]]]
    ELSE CleanupRegistered(m, c)

CleanupConnection(m, c) ==
    IF c \notin m.active_connections THEN m
    ELSE CleanupRegistered(m, c)

\* --------------------------------------------------------------- disconnect
RECURSIVE DiscardOnly(_, _, _)
DiscardOnly(ss, shows, c) ==
    IF shows = {} THEN ss
    ELSE LET T == CHOOSE x \in shows : TRUE
         IN DiscardOnly(PutKey(ss, T, Subscribers(ss, T) \ {c}), shows \ {T}, c)

DisconnectMgr(m, c) ==
    IF c \notin m.active_connections THEN m
    ELSE DeleteConnection(
           [m EXCEPT !.show_subscribers =
                       DiscardOnly(m.show_subscribers, m.subscribed_shows[c], c),
                     !.user_connections = PopUser(m.user_connections, m.user_id[c])],
           c)

\* ------------------------------------------------------- _send_to_connection
\* al: whether the transport of each connection accepts a send
SendToConnection(m, c, msg, t, al) ==
    IF c \notin m.active_connections
    THEN [ok |-> FALSE, m |-> m, raised |-> FALSE]
    ELSE LET r == CheckRateLimit(m, c, t)
         IN IF ~r.ok THEN [ok |-> FALSE, m |-> r.m, raised |-> FALSE]
            ELSE IF ~JsonSerializable(msg) \/ ~al[c]
            THEN [ok |-> FALSE, m |-> CleanupConnection(r.m, c), raised |-> TRUE]
            ELSE [ok |-> TRUE, m |-> r.m, raised |-> FALSE]

\* -------------------------------------------------------- _subscribe_to_show
SubscribeToShow(m, c, T, t, al) ==
    IF c \notin m.active_connections THEN m
    ELSE LET ss == PutKey(m.show_subscribers, T,
                          Subscribers(m.show_subscribers, T) \cup {c})
             st0 == IF T \in DOMAIN m.live_stats THEN m.live_stats
                    ELSE PutKey(m.live_stats, T, LiveStats)
             st == SetViewers(st0, T, ss)
             m2 == [m EXCEPT !.subscribed_shows[c] = @ \cup {T},
                             !.show_subscribers = ss,
                             !.live_stats = st]
         IN SendToConnection(m2, c, Msg("live_stats", <<st[T]>>, 0), t, al).m

\* -------------------------------------------------------- _update_show_stats
UpdateShowStats(stats, T, msg) ==
    LET st == IF T \in DOMAIN stats THEN stats ELSE PutKey(stats, T, LiveStats)
    IN CASE msg.type = "score_update" ->
                [st EXCEPT ![T].total_points_awarded = @ + msg.points,
                           ![T].recent_events = @ + 1]
         [] msg.type = "episode_event" -> [st EXCEPT ![T].recent_events = @ + 1]
         [] msg.type = "user_prediction" -> [st EXCEPT ![T].active_predictions = @ + 1]
         [] OTHER -> st

\* ------------------------------------------------------------ initial state
NoBroadcast ==
    [pc |-> "idle", show |-> None, msg |-> Msg(None, <<>>, 0), snapshot |-> {},
     pending |-> {}, failed |-> <<>>, got |-> [c \in ConnIds |-> <<>>],
     tried |-> {}, healthy |-> {}, eligible |-> {}, raised |-> {}]

NoMeter == [c \in ConnIds |-> [sent |-> 0, delivered |-> 0]]

\* ------------------------------------------------------------------ connect
\* uuid4 never hands out the same identifier twice
NextConnId ==
    LET free == {i \in 1..Len(ConnOrder) : ConnOrder[i] \notin used}
    IN ConnOrder[CHOOSE i \in free : \A j \in free : i <= j]

\* the outcome of connect's last send, the welcome message
ConnectResult(c, show) ==
    LET m1 == [Mgr EXCEPT !.active_connections = @ \cup {c},
                          !.last_ping[c] = now]
        m2 == IF show # None THEN SubscribeToShow(m1, c, show, now, alive) ELSE m1
    IN SendToConnection(m2, c, Msg("connected", <<>>, 0), now, alive)

Connect(c, show) ==
    /\ used # ConnIds
    /\ c = NextConnId
    /\ SetMgr(ConnectResult(c, show).m)
    /\ used' = used \cup {c}
    /\ UNCHANGED <<now, bcast, n_broadcasts>>

\* ------------------------------------------------------------- disconnect
Disconnect(c) ==
    /\ c \in used
    /\ SetMgr(DisconnectMgr(Mgr, c))
    /\ UNCHANGED <<now, used, bcast, n_broadcasts>>

\* ------------------------------------------------- authenticate_connection
AuthenticateResult(c, u) ==
    LET m1 == [Mgr EXCEPT !.user_id[c] = u,
                          !.user_connections = PutKey(@, u, c)]
    IN SendToConnection(m1, c, Msg("authentication_success", <<>>, 0), now, alive)

AuthenticateConnection(c, u) ==
    /\ c \in active_connections
    /\ SetMgr(AuthenticateResult(c, u).m)
    /\ UNCHANGED <<now, used, bcast, n_broadcasts>>

\* ------------------------------------------------------------- send_to_user
SendToUserResult(u) ==
    SendToConnection(Mgr, user_connections[u], Msg("friend_activity", <<>>, 0),
                     now, alive)

\* the connections on which send_to_user(u) attempts a delivery: the one the
\* reverse mapping names, if _send_to_connection finds it registered
SendToUserTargets(u) ==
    IF u \in DOMAIN user_connections /\ user_connections[u] \in active_connections
    THEN {user_connections[u]}
    ELSE {}

SendToUser(u) ==
    /\ u \in DOMAIN user_connections
    /\ SetMgr(SendToUserResult(u).m)
    /\ UNCHANGED <<now, used, bcast, n_broadcasts>>

\* --------------------------------------------------------- subscribe_to_show
Subscribe(c, T) ==
    /\ c \in active_connections
    /\ SetMgr(SubscribeToShow(Mgr, c, T, now, alive))
    /\ UNCHANGED <<now, used, bcast, n_broadcasts>>

\* ----------------------------------------------------- unsubscribe_from_show
UnsubscribeMgr(m, c, T) ==
    LET ss == PutKey(m.show_subscribers, T, Subscribers(m.show_subscribers, T) \ {c})
    IN [m EXCEPT !.subscribed_shows[c] = @ \ {T},
                 !.show_subscribers = ss,
                 !.live_stats = SetViewers(@, T, ss)]

Unsubscribe(c, T) ==
    /\ c \in active_connections
    /\ SetMgr(UnsubscribeMgr(Mgr, c, T))
    /\ UNCHANGED <<now, used, bcast, n_broadcasts>>

\* --------------------------------------------------------- broadcast_to_show
BroadcastTypes == {"episode_event"}

BroadcastStart(T, type) ==
    /\ bcast.pc = "idle"
    /\ n_broadcasts < MaxBroadcasts
    /\ n_broadcasts' = n_broadcasts + 1
    /\ bcast' =
         IF T \notin DOMAIN show_subscribers
         THEN [NoBroadcast EXCEPT !.pc = "done", !.show = T,
                                  !.msg = Msg(type, <<>>, 0)]
         ELSE [NoBroadcast EXCEPT
                 !.pc = "sending", !.show = T,
                 !.msg = [Msg(type, <<>>, 0) EXCEPT !.show_id = T, !.timestamp = <<now>>],
                 !.snapshot = show_subscribers[T],
                 !.pending = show_subscribers[T]]
    /\ UNCHANGED <<active_connections, subscribed_shows, user_id, last_ping,
                   show_subscribers, user_connections, live_stats, rate_limits,
                   now, alive, used>>

\* mutant: the pass stops at the first send that did not succeed
AfterFailedSendAborts(b, c) == [b EXCEPT !.failed = Append(@, c), !.pending = {}]

\* what the loop does after a send that did not succeed
AfterFailedSend(b, c) == [b EXCEPT !.failed = Append(@, c)]

\* one iteration of "for connection_id in subscribers"; a set has no order
BroadcastSend(c) ==
    /\ bcast.pc = "sending"
    /\ c \in bcast.pending
    /\ LET r == SendToConnection(Mgr, c, bcast.msg, now, alive)
           b1 == [bcast EXCEPT
                    !.pending = @ \ {c},
                    !.tried = @ \cup {c},
                    !.got[c] = IF r.ok THEN Append(@, bcast.msg) ELSE @,
                    !.healthy = IF c \in active_connections /\ alive[c]
                                THEN @ \cup {c} ELSE @,
                    !.eligible = IF /\ c \in active_connections
                                    /\ alive[c]
                                    /\ ~RateLimited(rate_limits, c, now)
                                 THEN @ \cup {c} ELSE @,
                    !.raised = IF r.raised THEN @ \cup {c} ELSE @]
       IN /\ SetMgr(r.m)
          /\ bcast' = IF r.ok THEN b1 ELSE AfterFailedSend(b1, c)
    /\ UNCHANGED <<now, used, n_broadcasts>>

\* mutant: the failed list is dropped without deregistering anyone
CleanupAllNone(m, failed) == m

RECURSIVE CleanupAll(_, _)
CleanupAll(m, failed) ==
    IF failed = <<>> THEN m
    ELSE CleanupAll(CleanupConnection(m, Head(failed)), Tail(failed))

BroadcastFinish ==
    /\ bcast.pc = "sending"
    /\ bcast.pending = {}
    /\ LET m1 == CleanupAll(Mgr, bcast.failed)
       IN SetMgr([m1 EXCEPT !.live_stats = UpdateShowStats(@, bcast.show, bcast.msg)])
    /\ bcast' = [bcast EXCEPT !.pc = "done"]
    /\ UNCHANGED <<now, used, n_broadcasts>>

\* broadcast_to_show returns to its caller; nothing else runs between its last
\* statement and the return
BroadcastReturn ==
    /\ bcast.pc = "done"
    /\ bcast' = NoBroadcast
    /\ UNCHANGED <<active_connections, subscribed_shows, user_id, last_ping,
                   show_subscribers, user_connections, live_stats, rate_limits,
                   now, alive, used, n_broadcasts>>

\* ------------------------------------------------------ _cleanup_connections
\* mutant: a connection idle for exactly the threshold is stale too
StaleConnectionsInclusive(m, t) ==
    {c \in m.active_connections : t - m.last_ping[c] >= StaleSeconds}

StaleConnections(m, t) ==
    {c \in m.active_connections : t - m.last_ping[c] > StaleSeconds}

RECURSIVE CleanupSet(_, _)
CleanupSet(m, S) ==
    IF S = {} THEN m
    ELSE LET c == CHOOSE x \in S : TRUE
         IN CleanupSet(CleanupConnection(m, c), S \ {c})

CleanupConnections ==
    /\ cleanup_task = "running"
    /\ StaleConnections(Mgr, now) # {}
    /\ SetMgr(CleanupSet(Mgr, StaleConnections(Mgr, now)))
    /\ UNCHANGED <<now, used, bcast, n_broadcasts>>

\* -------------------------------------------------------------- environment
TimeSteps == {1, StaleSeconds + 1}

\* the clock is followed second by second up to MaxTime, and may at any of
\* those seconds jump past the staleness threshold
Tick(d) ==
    /\ now < MaxTime
    /\ now' = now + d
    /\ UNCHANGED <<active_connections, subscribed_shows, user_id, last_ping,
                   show_subscribers, user_connections, live_stats, rate_limits,
                   alive, used, bcast, n_broadcasts>>

\* the peer goes away: every later send_text on this transport raises
TransportClosed(c) ==
    /\ c \in active_connections
    /\ alive[c]
    /\ alive' = [alive EXCEPT ![c] = FALSE]
    /\ UNCHANGED <<active_connections, subscribed_shows, user_id, last_ping,
                   show_subscribers, user_connections, live_stats, rate_limits,
                   now, used, bcast, n_broadcasts>>

\* -------------------------------------------------------- _update_live_stats
\* the message of the heartbeat: {"type": LIVE_STATS, "stats": asdict(stats)}
StatsMsg(stats, T, t) ==
    [Msg("live_stats", <<stats[T]>>, 0) EXCEPT !.show_id = T, !.timestamp = <<t>>]

\* the send loop of broadcast_to_show for a message that json.dumps rejects:
\* _send_to_connection then never reaches "await websocket.send_text", so the
\* loop runs without suspending
RECURSIVE SendToAll(_, _, _, _, _)
SendToAll(m, S, msg, t, al) ==
    IF S = {} THEN [m |-> m, failed |-> {}, delivered |-> {}]
    ELSE LET c == CHOOSE x \in S : TRUE
             r == SendToConnection(m, c, msg, t, al)
             rest == SendToAll(r.m, S \ {c}, msg, t, al)
         IN [m |-> rest.m,
             failed |-> rest.failed \cup (IF r.ok THEN {} ELSE {c}),
             delivered |-> rest.delivered \cup (IF r.ok THEN {c} ELSE {})]

\* broadcast_to_show(T, live_stats message): snapshot, sends, cleanup of the
\* failed connections, _update_show_stats
BroadcastStats(m, T, t, al) ==
    LET msg == StatsMsg(m.live_stats, T, t)
        sent == SendToAll(m, m.show_subscribers[T], msg, t, al)
        m2 == CleanupSet(sent.m, sent.failed)
    IN [m |-> [m2 EXCEPT !.live_stats = UpdateShowStats(@, T, msg)],
        delivered |-> {<<c, T>> : c \in sent.delivered}]

\* "for show_id, stats in self.live_stats.items(): if self.show_subscribers[show_id]:
\* await self.broadcast_to_show(...)"; order: the shows in the order of the dict
RECURSIVE StatsPass(_, _, _, _)
StatsPass(m, order, t, al) ==
    IF order = <<>> THEN [m |-> m, delivered |-> {}]
    ELSE LET T == Head(order)
             ss == IF T \in DOMAIN m.show_subscribers THEN m.show_subscribers
                   ELSE PutKey(m.show_subscribers, T, {})
             m1 == [m EXCEPT !.show_subscribers = ss]
         IN IF T \notin DOMAIN m.live_stats THEN StatsPass(m, Tail(order), t, al)
            ELSE IF ss[T] = {} THEN StatsPass(m1, Tail(order), t, al)
            ELSE LET b == BroadcastStats(m1, T, t, al)
                     rest == StatsPass(b.m, Tail(order), t, al)
                 IN [m |-> rest.m, delivered |-> b.delivered \cup rest.delivered]

\* the orders in which the dict live_stats can hold the shows
ShowOrders == {<<"s1", "s2">>, <<"s2", "s1">>}

\* one pass of the heartbeat loop
UpdateLiveStats ==
    /\ stats_task = "running"
    /\ \E T \in DOMAIN live_stats : Subscribers(show_subscribers, T) # {}
    /\ \E order \in ShowOrders :
         LET r == StatsPass(Mgr, order, now, alive)
         IN /\ SetMgr(r.m)
            /\ hb_delivered' = r.delivered
    /\ UNCHANGED <<now, used, bcast, n_broadcasts>>

\* -------------------------------------------------------------- handle_ping
Pong(stamp) == [type |-> "pong", timestamp |-> stamp]

\* last_ping = utcnow(), then the pong is written straight to the transport; an
\* error of that write is logged
HandlePing(c) ==
    /\ c \in active_connections
    /\ last_ping' = [last_ping EXCEPT ![c] = now]
    /\ pinged_at' = [pinged_at EXCEPT ![c] = <<now>>]
    /\ last_pong' = IF alive[c] THEN [last_pong EXCEPT ![c] = <<Pong(<<now>>)>>]
                    ELSE last_pong
    /\ UNCHANGED <<active_connections, subscribed_shows, user_id,
                   show_subscribers, user_connections, live_stats, rate_limits,
                   now, alive, used, bcast, n_broadcasts>>

\* websocket_endpoint of main.py, message type "ping":
\* "await websocket.send_text(json.dumps({"type": "pong"}))"; the receive loop
\* of a websocket runs whether or not the manager still has it registered
EndpointPing(c) ==
    /\ c \in used
    /\ alive[c]
    /\ pinged_at' = [pinged_at EXCEPT ![c] = <<now>>]
    /\ last_pong' = [last_pong EXCEPT ![c] = <<Pong(<<>>)>>]
    /\ UNCHANGED <<active_connections, subscribed_shows, user_id, last_ping,
                   show_subscribers, user_connections, live_stats, rate_limits,
                   now, alive, used, bcast, n_broadcasts>>

\* the sweep's clock: followed second by second up to MaxSweepTime, and at any
\* of those seconds advanced by exactly the staleness threshold
SweepSteps == {1, StaleSeconds}

SweepTick(d) ==
    /\ now < MaxSweepTime
    /\ now' = now + d
    /\ UNCHANGED <<active_connections, subscribed_shows, user_id, last_ping,
                   show_subscribers, user_connections, live_stats, rate_limits,
                   alive, used, bcast, n_broadcasts>>

\* ======================================================================
\*                        BackgroundTaskManager
\* ======================================================================
NoTime == -1

\* schedule_config of the registered tasks: interval triggers, in minutes
IntervalMinutes == [t \in TaskIds |-> IF t = "t1" THEN 1 ELSE 2]

\* _calculate_next_run: "interval" gives now + timedelta(**config); "once" gives
\* config.get('run_at', now), and the tasks registered as "once" carry no run_at
CalculateNextRun(t, clk) ==
    IF schedule_type[t] = "interval" THEN clk + IntervalMinutes[t]
    ELSE clk

\* register_task: ScheduledTask(enabled=True, failure_count=0, next_run=...)
RegisterTask(t, clk) ==
    [enabled |-> TRUE, next_run |-> CalculateNextRun(t, clk), failure_count |-> 0]

\* no shutdown() call has been made
NoShutdown == [pc |-> "idle", items |-> <<>>, size |-> 0, pos |-> 0]

\* the two overlapping broadcast_to_show calls, A made before B
CallIds == {"A", "B"}

\* a broadcast_to_show call that has not been made: order is the iteration order
\* of its snapshot, queue the subscribers it has not got to yet
NoCall ==
    [pc |-> "idle", show |-> None, msg |-> Msg(None, <<>>, 0),
     order |-> <<>>, queue |-> <<>>, failed |-> <<>>]

NoStop == [pc |-> "idle", items |-> <<>>, size |-> 0, pos |-> 0, awaiting |-> None]

\* ConnectionManager.__init__ and BackgroundTaskManager.__init__ followed by the
\* registration of the tasks
Init ==
    /\ schedule_type = [t \in TaskIds |-> "interval"]
    /\ shutdown = NoShutdown
    /\ cleanup_task = "running"
    /\ stats_task = "running"
    /\ calls = [k \in CallIds |-> NoCall]
    /\ inbox = [c \in ConnIds |-> <<>>]
    /\ active_connections = {}
    /\ subscribed_shows = [c \in ConnIds |-> {}]
    /\ user_id = [c \in ConnIds |-> None]
    /\ last_ping = [c \in ConnIds |-> 0]
    /\ show_subscribers = EmptyMap
    /\ user_connections = EmptyMap
    /\ live_stats = EmptyMap
    /\ rate_limits = {}
    /\ now = 0
    /\ alive = [c \in ConnIds |-> TRUE]
    /\ used = {}
    /\ bcast = NoBroadcast
    /\ n_broadcasts = 0
    /\ meter = NoMeter
    /\ tasks = [t \in TaskIds |-> RegisterTask(t, 0)]
    /\ running_tasks = <<>>
    /\ task_results = [t \in TaskIds |-> None]
    /\ executions = [t \in TaskIds |-> 0]
    /\ is_running = FALSE
    /\ scheduler_task = "none"
    /\ clock = 0
    /\ stop = NoStop
    /\ streak = [t \in TaskIds |-> 0]
    /\ manual = {}
    /\ pinged_at = [c \in ConnIds |-> <<>>]
    /\ last_pong = [c \in ConnIds |-> <<>>]
    /\ hb_delivered = {}

InSeq(x, seq) == \E i \in 1..Len(seq) : seq[i] = x

\* mutant: the wrapper leaves the task in the running set
PopTaskKeeps(seq, t) == seq

\* mutant: the wrapper empties the running set
PopTaskClears(seq, t) == <<>>

\* running_tasks.pop(task.id, None)
PopTask(seq, t) == SelectSeq(seq, LAMBDA x : x # t)

\* -------------------------------------------------------------------- start
Start ==
    /\ scheduler_task = "none"
    /\ is_running' = TRUE
    /\ scheduler_task' = "alive"
    /\ UNCHANGED <<tasks, running_tasks, task_results, executions, clock, stop, streak>>
    /\ UNCHANGED <<wsvars, auxvars>>

\* ------------------------------------------------------ _check_and_run_tasks
\* mutant: no check of running_tasks
ShouldLaunchIgnoresRunning(task, t, running, clk) ==
    /\ task.enabled
    /\ task.next_run # NoTime
    /\ clk >= task.next_run

\* mutant: no check of the enabled flag
ShouldLaunchIgnoresEnabled(task, t, running, clk) ==
    /\ task.next_run # NoTime
    /\ clk >= task.next_run
    /\ ~InSeq(t, running)

ShouldLaunch(task, t, running, clk) ==
    /\ task.enabled
    /\ task.next_run # NoTime
    /\ clk >= task.next_run
    /\ ~InSeq(t, running)

\* the tasks of self.tasks, in dict order, that this tick hands to _execute_task
RECURSIVE Launched(_, _, _, _)
Launched(order, tk, running, clk) ==
    IF order = <<>> THEN <<>>
    ELSE LET t == Head(order)
         IN IF ShouldLaunch(tk[t], t, running, clk)
            THEN <<t>> \o Launched(Tail(order), tk, running \o <<t>>, clk)
            ELSE Launched(Tail(order), tk, running, clk)

CountIn(seq, t) == Cardinality({i \in 1..Len(seq) : seq[i] = t})

\* one pass of the scheduler loop; _execute_task does not suspend
SchedulerTick ==
    /\ scheduler_task = "alive"
    /\ is_running
    /\ LET new == Launched(TaskOrder, tasks, running_tasks, clock)
       IN /\ new # <<>>
          /\ running_tasks' = running_tasks \o new
          /\ task_results' = [t \in TaskIds |->
                                IF InSeq(t, new) THEN "running" ELSE task_results[t]]
          /\ executions' = [t \in TaskIds |-> executions[t] + CountIn(new, t)]
    /\ UNCHANGED <<tasks, is_running, scheduler_task, clock, stop, streak>>
    /\ UNCHANGED <<wsvars, auxvars>>

\* --------------------------------------------- _run_task_with_error_handling
\* mutant: the success branch leaves next_run alone
TaskAfterSuccessKeepsNextRun(task, t, clk) ==
    [task EXCEPT !.failure_count = 0]

\* the job returned
TaskAfterSuccess(task, t, clk) ==
    [task EXCEPT !.failure_count = 0, !.next_run = CalculateNextRun(t, clk)]

\* mutant: off by one
TooManyFailuresStrict(count) == count > MaxFailures

\* "if task.failure_count >= task.max_failures"
TooManyFailures(count) == count >= MaxFailures

\* mutant: the threshold branch backs off instead of disabling
TaskAfterFailureNeverDisables(task, clk) ==
    LET n == task.failure_count + 1
    IN [task EXCEPT !.failure_count = n, !.next_run = clk + 1]

\* mutant: the same delay after every failure
TaskAfterFailureFixedDelay(task, clk) ==
    LET n == task.failure_count + 1
    IN IF TooManyFailures(n)
       THEN [task EXCEPT !.failure_count = n, !.enabled = FALSE]
       ELSE [task EXCEPT !.failure_count = n, !.next_run = clk + 2]

\* the job raised
TaskAfterFailure(task, clk) ==
    LET n == task.failure_count + 1
    IN IF TooManyFailures(n)
       THEN [task EXCEPT !.failure_count = n, !.enabled = FALSE]
       ELSE [task EXCEPT !.failure_count = n, !.next_run = clk + 2 ^ n]

InFlight(t) == executions[t] > 0 /\ stop.awaiting # t

JobSucceeds(t) ==
    /\ InFlight(t)
    /\ tasks' = [tasks EXCEPT ![t] = TaskAfterSuccess(@, t, clock)]
    /\ task_results' = [task_results EXCEPT ![t] = "completed"]
    /\ running_tasks' = PopTask(running_tasks, t)
    /\ executions' = [executions EXCEPT ![t] = @ - 1]
    /\ streak' = [streak EXCEPT ![t] = 0]
    /\ UNCHANGED <<is_running, scheduler_task, clock, stop>>
    /\ UNCHANGED <<wsvars, auxvars>>

JobFails(t) ==
    /\ InFlight(t)
    /\ tasks' = [tasks EXCEPT ![t] = TaskAfterFailure(@, clock)]
    /\ task_results' = [task_results EXCEPT ![t] = "failed"]
    /\ running_tasks' = PopTask(running_tasks, t)
    /\ executions' = [executions EXCEPT ![t] = @ - 1]
    /\ streak' = [streak EXCEPT ![t] = @ + 1]
    /\ UNCHANGED <<is_running, scheduler_task, clock, stop>>
    /\ UNCHANGED <<wsvars, auxvars>>

\* -------------------------------------------------- enable_task, disable_task
\* mutant: the failure counter survives enable_task
EnableTaskKeepsCounter(t) ==
    /\ tasks' = [tasks EXCEPT ![t].enabled = TRUE,
                              ![t].next_run = CalculateNextRun(t, clock)]
    /\ streak' = [streak EXCEPT ![t] = 0]
    /\ UNCHANGED <<running_tasks, task_results, executions, is_running,
                   scheduler_task, clock, stop>>
    /\ UNCHANGED <<wsvars, auxvars>>

EnableTask(t) ==
    /\ tasks' = [tasks EXCEPT ![t].enabled = TRUE, ![t].failure_count = 0,
                              ![t].next_run = CalculateNextRun(t, clock)]
    /\ streak' = [streak EXCEPT ![t] = 0]
    /\ UNCHANGED <<running_tasks, task_results, executions, is_running,
                   scheduler_task, clock, stop>>
    /\ UNCHANGED <<wsvars, auxvars>>

DisableTask(t) ==
    /\ tasks[t].enabled
    /\ tasks' = [tasks EXCEPT ![t].enabled = FALSE]
    /\ UNCHANGED <<running_tasks, task_results, executions, is_running,
                   scheduler_task, clock, stop, streak>>
    /\ UNCHANGED <<wsvars, auxvars>>

\* --------------------------------------------------------------------- stop
\* is_running = False; scheduler_task.cancel(); await scheduler_task
StopBegin ==
    /\ stop.pc = "idle"
    /\ scheduler_task = "alive"
    /\ is_running' = FALSE
    /\ scheduler_task' = "cancelled"
    /\ stop' = [stop EXCEPT !.pc = "await_scheduler"]
    /\ UNCHANGED <<tasks, running_tasks, task_results, executions, clock, streak>>
    /\ UNCHANGED <<wsvars, auxvars>>

\* a dict iterator raises RuntimeError when the dict changed size since the
\* iterator was created; the except clause of stop() logs it and stop() returns
DictChangedSize(st, running) == Len(running) # st.size

\* the iterator's next step: RuntimeError, exhaustion (then clear()), or the next
\* item, whose task is cancelled and awaited
StopIterate(st, running) ==
    IF DictChangedSize(st, running)
    THEN [stop |-> [st EXCEPT !.pc = "done"], running |-> running]
    ELSE IF st.pos = Len(st.items)
    THEN [stop |-> [st EXCEPT !.pc = "done"], running |-> <<>>]
    ELSE [stop |-> [st EXCEPT !.pc = "await_task", !.pos = @ + 1,
                              !.awaiting = st.items[st.pos + 1]],
          running |-> running]

\* "await self.scheduler_task" returns; "for task_id, task in
\* self.running_tasks.items()" creates the iterator and takes its first step
\* without suspending
StopEnterLoop ==
    /\ stop.pc = "await_scheduler"
    /\ LET r == StopIterate([stop EXCEPT !.items = running_tasks,
                                         !.size = Len(running_tasks), !.pos = 0],
                            running_tasks)
       IN /\ stop' = r.stop
          /\ running_tasks' = r.running
    /\ UNCHANGED <<tasks, task_results, executions, is_running,
                   scheduler_task, clock, streak>>
    /\ UNCHANGED <<wsvars, auxvars>>

\* stop() resumes after "await task" and the loop takes its next step
StopNext ==
    /\ stop.pc = "loop"
    /\ LET r == StopIterate(stop, running_tasks)
       IN /\ stop' = r.stop
          /\ running_tasks' = r.running
    /\ UNCHANGED <<tasks, task_results, executions, is_running, scheduler_task,
                   clock, streak>>
    /\ UNCHANGED <<wsvars, auxvars>>

\* CancelledError is raised inside the awaited execution: "except Exception"
\* does not catch it, the finally clause pops the task, and stop() resumes
JobCancelled(t) ==
    /\ stop.pc = "await_task"
    /\ stop.awaiting = t
    /\ running_tasks' = PopTask(running_tasks, t)
    /\ executions' = [executions EXCEPT ![t] = IF @ > 0 THEN @ - 1 ELSE 0]
    /\ stop' = [stop EXCEPT !.pc = "loop", !.awaiting = None]
    /\ UNCHANGED <<tasks, task_results, is_running, scheduler_task, clock, streak>>
    /\ UNCHANGED <<wsvars, auxvars>>

ClockTick ==
    /\ clock < MaxClock
    /\ clock' = clock + 1
    /\ UNCHANGED <<tasks, running_tasks, task_results, executions, is_running,
                   scheduler_task, stop, streak>>
    /\ UNCHANGED <<wsvars, auxvars>>

NextTasks ==
    \/ Start
    \/ SchedulerTick
    \/ \E t \in TaskIds : JobSucceeds(t)
    \/ \E t \in TaskIds : JobFails(t)
    \/ \E t \in TaskIds : EnableTask(t)
    \/ \E t \in TaskIds : DisableTask(t)
    \/ StopBegin
    \/ StopEnterLoop
    \/ StopNext
    \/ \E t \in TaskIds : JobCancelled(t)
    \/ ClockTick

SpecTasks == Init /\ [][NextTasks]_vars

\* ------------------------------------------- trigger_ml_updates, trigger_data_sync
\* "return await self.update_ml_predictions()": the job is called directly, outside
\* _execute_task and _run_task_with_error_handling
TriggerMlUpdates(t) ==
    /\ t \notin manual
    /\ manual' = manual \cup {t}
    /\ UNCHANGED <<pinged_at, last_pong, hb_delivered, newvars>>
    /\ UNCHANGED <<taskvars, wsvars>>

\* the directly called job returns or raises to the caller of the trigger
TriggerReturn(t) ==
    /\ t \in manual
    /\ manual' = manual \ {t}
    /\ UNCHANGED <<pinged_at, last_pong, hb_delivered, newvars>>
    /\ UNCHANGED <<taskvars, wsvars>>

NextManual ==
    \/ Start
    \/ SchedulerTick
    \/ \E t \in TaskIds : JobSucceeds(t)
    \/ \E t \in TaskIds : JobFails(t)
    \/ ClockTick
    \/ \E t \in TaskIds : TriggerMlUpdates(t)
    \/ \E t \in TaskIds : TriggerReturn(t)

SpecManual == Init /\ [][NextManual]_vars

\* ------------------------------------------------- a task registered as "once"
\* register_task(t, ..., schedule_type="once", schedule_config={}) before the
\* scheduler has ever launched t: self.tasks[t] is replaced by a new ScheduledTask
\* whose next_run is config.get('run_at', now), i.e. now
RegisterOnce(t) ==
    /\ schedule_type[t] = "interval"
    /\ executions[t] = 0
    /\ task_results[t] = None
    /\ schedule_type' = [schedule_type EXCEPT ![t] = "once"]
    /\ tasks' = [tasks EXCEPT ![t] =
                   [enabled |-> TRUE, next_run |-> clock, failure_count |-> 0]]
    /\ UNCHANGED <<running_tasks, task_results, executions, is_running,
                   scheduler_task, clock, stop, streak>>
    /\ UNCHANGED <<wsvars, manual, pinged_at, last_pong, hb_delivered,
                   mgrvars, calls, inbox>>

NextOnce ==
    \/ Start
    \/ \E t \in TaskIds : RegisterOnce(t)
    \/ SchedulerTick
    \/ \E t \in TaskIds : JobSucceeds(t)
    \/ \E t \in TaskIds : JobFails(t)
    \/ ClockTick

SpecOnce == Init /\ [][NextOnce]_vars

\* ------------------------------------------------------ a runner left running
\* The tasks whose job always returns; the job of the other task may raise.
Reliable == {"t1"}

NextLive ==
    \/ Start
    \/ SchedulerTick
    \/ \E t \in TaskIds : JobSucceeds(t)
    \/ \E t \in TaskIds \ Reliable : JobFails(t)
    \/ ClockTick

\* _task_scheduler runs _check_and_run_tasks every 30 seconds while is_running
\* and catches every exception; a reliable job returns; time passes
SpecLive ==
    /\ Init
    /\ [][NextLive]_vars
    /\ WF_vars(SchedulerTick)
    /\ WF_vars(ClockTick)
    /\ \A t \in Reliable : WF_vars(JobSucceeds(t))

\* ======================================================================
\*                          ConnectionManager steps
\* ======================================================================
Running == bcast.pc # "done"

WSFrame == UNCHANGED <<taskvars, meter, auxvars>>

NextWS ==
    \/ Running /\ WSFrame /\ \E c \in ConnIds, show \in Shows \cup {None} : Connect(c, show)
    \/ Running /\ WSFrame /\ \E c \in ConnIds : Disconnect(c)
    \/ Running /\ WSFrame /\ \E c \in ConnIds, T \in Shows : Subscribe(c, T)
    \/ Running /\ WSFrame /\ \E c \in ConnIds, T \in Shows : Unsubscribe(c, T)
    \/ WSFrame /\ \E T \in Shows, type \in BroadcastTypes : BroadcastStart(T, type)
    \/ WSFrame /\ \E c \in ConnIds : BroadcastSend(c)
    \/ WSFrame /\ BroadcastFinish
    \/ WSFrame /\ BroadcastReturn
    \/ Running /\ WSFrame /\ CleanupConnections
    \/ Running /\ WSFrame /\ \E d \in TimeSteps : Tick(d)
    \/ Running /\ WSFrame /\ \E c \in ConnIds : TransportClosed(c)

Spec == Init /\ [][NextWS]_vars

\* ----------------------------------------------------------------------
\* The rate limiter on its own: connections without subscriptions, every
\* transport healthy, and a meter of the sends of the current second.
Metered(c, r) ==
    [meter EXCEPT ![c].sent = @ + 1,
                  ![c].delivered = @ + IF r.ok THEN 1 ELSE 0]

RateConnect(c) ==
    /\ Connect(c, None)
    /\ meter' = Metered(c, ConnectResult(c, None))

RateAuthenticate(c, u) ==
    /\ meter[c].sent < MaxSends
    /\ AuthenticateConnection(c, u)
    /\ meter' = Metered(c, AuthenticateResult(c, u))

RateSendToUser(u) ==
    /\ u \in DOMAIN user_connections
    /\ meter[user_connections[u]].sent < MaxSends
    /\ SendToUser(u)
    /\ meter' = Metered(user_connections[u], SendToUserResult(u))

RateTick(d) ==
    /\ Tick(d)
    /\ meter' = NoMeter

NextRate ==
    \/ UNCHANGED <<taskvars, auxvars>> /\ \E c \in ConnIds : RateConnect(c)
    \/ UNCHANGED <<taskvars, auxvars>> /\ \E c \in ConnIds, u \in Users : RateAuthenticate(c, u)
    \/ UNCHANGED <<taskvars, auxvars>> /\ \E u \in Users : RateSendToUser(u)
    \/ UNCHANGED <<taskvars, auxvars>> /\ \E d \in TimeSteps : RateTick(d)

SpecRate == Init /\ [][NextRate]_vars

\* The same sends with a clock that can also jump a whole minute, after which
\* datetime.utcnow().second has the value it had before the jump.
MinuteSteps == {1, SecondsPerMinute}

NextMinute ==
    \/ UNCHANGED <<taskvars, auxvars>> /\ \E c \in ConnIds : RateConnect(c)
    \/ UNCHANGED <<taskvars, auxvars>> /\ \E c \in ConnIds, u \in Users : RateAuthenticate(c, u)
    \/ UNCHANGED <<taskvars, auxvars>> /\ \E u \in Users : RateSendToUser(u)
    \/ UNCHANGED <<taskvars, auxvars>> /\ \E d \in MinuteSteps : RateTick(d)

SpecMinute == Init /\ [][NextMinute]_vars

\* ----------------------------------------------------------------------
\* Identities: connections that authenticate, possibly several times and
\* several for one user, and are deregistered.
NextAuth ==
    \/ WSFrame /\ \E c \in ConnIds, show \in Shows \cup {None} : Connect(c, show)
    \/ WSFrame /\ \E c \in ConnIds : Disconnect(c)
    \/ WSFrame /\ \E c \in ConnIds, u \in Users : AuthenticateConnection(c, u)
    \/ WSFrame /\ \E u \in Users : SendToUser(u)
    \/ WSFrame /\ CleanupConnections
    \/ WSFrame /\ \E d \in TimeSteps : Tick(d)
    \/ WSFrame /\ \E c \in ConnIds : TransportClosed(c)

SpecAuth == Init /\ [][NextAuth]_vars

\* ----------------------------------------------------------------------
\* Keep-alive: connections made through the endpoint, pings, and the sweep.
\* The sweep loop "while True: await asyncio.sleep(30); ..." catches every
\* exception and is never cancelled by main.py, so it runs again and again.
SweepFrame == UNCHANGED <<taskvars, meter, manual, hb_delivered, newvars>>

PingFrame == UNCHANGED <<pinged_at, last_pong>>

Sweep == SweepFrame /\ PingFrame /\ CleanupConnections

NextSweep ==
    \/ SweepFrame /\ PingFrame /\ \E c \in ConnIds, show \in Shows \cup {None} : Connect(c, show)
    \/ SweepFrame /\ \E c \in ConnIds : HandlePing(c)
    \/ SweepFrame /\ \E c \in ConnIds : EndpointPing(c)
    \/ SweepFrame /\ PingFrame /\ \E d \in SweepSteps : SweepTick(d)
    \/ Sweep

SpecSweep == Init /\ [][NextSweep]_vars /\ WF_vars(Sweep)

\* ----------------------------------------------------------------------
\* The statistics heartbeat over connections that subscribe and go away.
StatsFrame == UNCHANGED <<taskvars, meter, manual, pinged_at, last_pong, newvars>>

NextStats ==
    \/ StatsFrame /\ UNCHANGED hb_delivered
          /\ \E c \in ConnIds, show \in Shows \cup {None} : Connect(c, show)
    \/ StatsFrame /\ UNCHANGED hb_delivered /\ \E c \in ConnIds : Disconnect(c)
    \/ StatsFrame /\ UNCHANGED hb_delivered /\ \E c \in ConnIds, T \in Shows : Subscribe(c, T)
    \/ StatsFrame /\ UNCHANGED hb_delivered /\ \E c \in ConnIds, T \in Shows : Unsubscribe(c, T)
    \/ StatsFrame /\ UpdateLiveStats
    \/ StatsFrame /\ UNCHANGED hb_delivered /\ \E d \in TimeSteps : Tick(d)
    \/ StatsFrame /\ UNCHANGED hb_delivered /\ \E c \in ConnIds : TransportClosed(c)

SpecStats == Init /\ [][NextStats]_vars

\* ----------------------------------------------------------------------
\* shutdown(): the maintenance tasks are cancelled, every registered transport
\* is closed in dict order, and the three maps are cleared.
\* A dict keeps insertion order, and ids are inserted in the order they are
\* handed out.
ConnectionItems(active) == SelectSeq(ConnOrder, LAMBDA c : c \in active)

\* active_connections.clear(), show_subscribers.clear(), user_connections.clear();
\* live_stats and rate_limits are left as they are
ShutdownClear(m) ==
    [m EXCEPT !.active_connections = {},
              !.subscribed_shows = [c \in ConnIds |-> {}],
              !.user_id = [c \in ConnIds |-> None],
              !.last_ping = [c \in ConnIds |-> 0],
              !.show_subscribers = EmptyMap,
              !.user_connections = EmptyMap]

\* the next step of "for connection in self.active_connections.values()":
\* RuntimeError when the dict changed size (logged, shutdown() returns),
\* exhaustion (then the maps are cleared), or the next transport is closed
ShutdownIterate(sh, m, al) ==
    IF Cardinality(m.active_connections) # sh.size
    THEN [shutdown |-> [sh EXCEPT !.pc = "done"], m |-> m, alive |-> al]
    ELSE IF sh.pos = Len(sh.items)
    THEN [shutdown |-> [sh EXCEPT !.pc = "done"], m |-> ShutdownClear(m), alive |-> al]
    ELSE [shutdown |-> [sh EXCEPT !.pc = "closing", !.pos = @ + 1],
          m |-> m,
          alive |-> [al EXCEPT ![sh.items[sh.pos + 1]] = FALSE]]

SetMgrAlive(m, al) ==
    /\ active_connections' = m.active_connections
    /\ subscribed_shows' = m.subscribed_shows
    /\ user_id' = m.user_id
    /\ last_ping' = m.last_ping
    /\ show_subscribers' = m.show_subscribers
    /\ user_connections' = m.user_connections
    /\ live_stats' = m.live_stats
    /\ rate_limits' = m.rate_limits
    /\ alive' = [c \in ConnIds |-> al[c] \/ c \notin m.active_connections]

\* shutdown() up to its first suspension, "await connection.websocket.close()"
ShutdownBegin ==
    /\ shutdown.pc = "idle"
    /\ cleanup_task' = "cancelled"
    /\ stats_task' = "cancelled"
    /\ LET r == ShutdownIterate(
                  [NoShutdown EXCEPT !.items = ConnectionItems(active_connections),
                                     !.size = Cardinality(active_connections)],
                  Mgr, alive)
       IN /\ shutdown' = r.shutdown
          /\ SetMgrAlive(r.m, r.alive)
    /\ UNCHANGED <<now, used, bcast, n_broadcasts>>

\* close() returned or raised (the bare except passes); the loop goes on
ShutdownNext ==
    /\ shutdown.pc = "closing"
    /\ LET r == ShutdownIterate(shutdown, Mgr, alive)
       IN /\ shutdown' = r.shutdown
          /\ SetMgrAlive(r.m, r.alive)
    /\ UNCHANGED <<now, used, bcast, n_broadcasts, cleanup_task, stats_task>>

\* the message types main.py broadcasts that _update_show_stats counts
StatsTypes == {"episode_event", "user_prediction"}

ShutFrame == UNCHANGED <<taskvars, meter, manual, pinged_at, last_pong,
                         schedule_type, calls, inbox>>

MgrIdle == UNCHANGED <<mgrvars, hb_delivered>>

\* no new connection is accepted while shutdown() is closing the transports
Accepting == shutdown.pc # "closing"

NextShutdown ==
    \/ Running /\ Accepting /\ ShutFrame /\ MgrIdle
          /\ \E c \in ConnIds, show \in Shows \cup {None} : Connect(c, show)
    \/ Running /\ ShutFrame /\ MgrIdle /\ \E c \in ConnIds : Disconnect(c)
    \/ Running /\ ShutFrame /\ MgrIdle /\ \E c \in ConnIds, T \in Shows : Subscribe(c, T)
    \/ Running /\ ShutFrame /\ MgrIdle /\ \E c \in ConnIds, T \in Shows : Unsubscribe(c, T)
    \/ ShutFrame /\ MgrIdle /\ \E T \in Shows, type \in StatsTypes : BroadcastStart(T, type)
    \/ ShutFrame /\ MgrIdle /\ \E c \in ConnIds : BroadcastSend(c)
    \/ ShutFrame /\ MgrIdle /\ BroadcastFinish
    \/ ShutFrame /\ MgrIdle /\ BroadcastReturn
    \/ Running /\ ShutFrame /\ MgrIdle /\ \E d \in TimeSteps : Tick(d)
    \/ Running /\ ShutFrame /\ UNCHANGED <<mgrvars>> /\ UpdateLiveStats
    \/ Running /\ ShutFrame /\ MgrIdle /\ CleanupConnections
    \/ Running /\ ShutFrame /\ UNCHANGED hb_delivered /\ ShutdownBegin
    \/ Running /\ ShutFrame /\ UNCHANGED hb_delivered /\ ShutdownNext

SpecShutdown == Init /\ [][NextShutdown]_vars

\* ----------------------------------------------------------------------
\* Two broadcast_to_show calls to one topic, A made before B.  A call runs
\* without suspending until a send reaches "await websocket.send_text(...)":
\* a send that is rejected or raises does not suspend, a send that is written
\* does, and then the other call and the clock can move.
\* The orders in which a set of connection ids can be iterated
Orders(S) ==
    {q \in [1..Cardinality(S) -> S] : \A c \in S : \E i \in DOMAIN q : q[i] = c}

Before(q, c, d) == \E i, j \in DOMAIN q : i < j /\ q[i] = c /\ q[j] = d

\* a set and a later copy of it are iterated in the same relative order
SameOrder(p, q) ==
    \A c, d \in ConnIds : (Before(p, c, d) /\ InSeq(c, q) /\ InSeq(d, q)) => Before(q, c, d)

\* the loop of call b from its next subscriber on, up to the first send that is
\* written (the call is then suspended) or to the end of broadcast_to_show
RECURSIVE OrderRun(_, _, _, _, _, _)
OrderRun(b, m, ib, k, t, al) ==
    IF b.queue = <<>>
    THEN LET m1 == CleanupAll(m, b.failed)
         IN [call |-> [b EXCEPT !.pc = "done"],
             m |-> [m1 EXCEPT !.live_stats = UpdateShowStats(@, b.show, b.msg)],
             inbox |-> ib]
    ELSE LET c == Head(b.queue)
             r == SendToConnection(m, c, b.msg, t, al)
             b1 == [b EXCEPT !.queue = Tail(@)]
         IN IF r.ok
            THEN [call |-> [b1 EXCEPT !.pc = "sending"], m |-> r.m,
                  inbox |-> [ib EXCEPT ![c] = Append(@, k)]]
            ELSE OrderRun(AfterFailedSend(b1, c), r.m, ib, k, t, al)

\* broadcast_to_show(T, message) is called and runs up to its first suspension
OrderStart(k, T) ==
    /\ calls[k].pc = "idle"
    /\ k = "B" => (calls["A"].pc # "idle" /\ calls["A"].show = T)
    /\ IF T \notin DOMAIN show_subscribers
       THEN /\ calls' = [calls EXCEPT ![k] = [NoCall EXCEPT !.pc = "done", !.show = T]]
            /\ UNCHANGED <<active_connections, subscribed_shows, user_id, last_ping,
                           show_subscribers, user_connections, live_stats,
                           rate_limits, alive, inbox>>
       ELSE \E q \in Orders(show_subscribers[T]) :
              /\ k = "B" => SameOrder(calls["A"].order, q)
              /\ LET b == [NoCall EXCEPT
                             !.show = T, !.order = q, !.queue = q,
                             !.msg = [Msg("episode_event", <<>>, 0) EXCEPT
                                        !.show_id = T, !.timestamp = <<now>>]]
                     r == OrderRun(b, Mgr, inbox, k, now, alive)
                 IN /\ calls' = [calls EXCEPT ![k] = r.call]
                    /\ SetMgr(r.m)
                    /\ inbox' = r.inbox
    /\ UNCHANGED <<now, used, bcast, n_broadcasts>>

\* send_text returns and call k goes on to its next suspension or to its end
OrderResume(k) ==
    /\ calls[k].pc = "sending"
    /\ LET r == OrderRun(calls[k], Mgr, inbox, k, now, alive)
       IN /\ calls' = [calls EXCEPT ![k] = r.call]
          /\ SetMgr(r.m)
          /\ inbox' = r.inbox
    /\ UNCHANGED <<now, used, bcast, n_broadcasts>>

\* the clock, second by second
OrderTick ==
    /\ now < MaxOrderTime
    /\ now' = now + 1
    /\ UNCHANGED <<active_connections, subscribed_shows, user_id, last_ping,
                   show_subscribers, user_connections, live_stats, rate_limits,
                   alive, used, bcast, n_broadcasts, calls, inbox>>

OrderFrame == UNCHANGED <<taskvars, meter, manual, pinged_at, last_pong,
                          hb_delivered, schedule_type, mgrvars>>

NextOrder ==
    \/ OrderFrame /\ UNCHANGED <<calls, inbox>>
          /\ \E c \in ConnIds, show \in Shows \cup {None} : Connect(c, show)
    \/ OrderFrame /\ UNCHANGED <<calls, inbox>>
          /\ \E c \in ConnIds, T \in Shows : Subscribe(c, T)
    \/ OrderFrame /\ \E k \in CallIds, T \in Shows : OrderStart(k, T)
    \/ OrderFrame /\ \E k \in CallIds : OrderResume(k)
    \/ OrderFrame /\ OrderTick

SpecOrder == Init /\ [][NextOrder]_vars

\* ======================================================================
\*                               Claims
\* ======================================================================
Min(a, b) == IF a <= b THEN a ELSE b

\* C1: for every topic T and every registered connection c, c is a subscriber
\* of T exactly when T is a subscription of c, and no subscriber set holds the
\* identifier of a connection that is not registered.
C1_BidirectionalConsistency ==
    /\ \A T \in Shows : \A c \in active_connections :
         c \in Subscribers(show_subscribers, T) <=> T \in subscribed_shows[c]
    /\ \A T \in DOMAIN show_subscribers : show_subscribers[T] \subseteq active_connections

\* a broadcast has just evicted a subscriber whose send raised, while another
\* connection is still subscribed to some topic
C1_Witness ==
    /\ bcast.pc = "done"
    /\ bcast.raised # {}
    /\ \E c \in active_connections : subscribed_shows[c] # {}
    /\ used \ active_connections # {}

\* C2: for every topic with a statistics record, the stored viewer count is the
\* size of the topic's subscriber set after every subscribe, unsubscribe and
\* deregistration, disconnect() included.
C2_ViewerCountIsSubscriberCount ==
    \A T \in DOMAIN live_stats :
        live_stats[T].viewers_count = Cardinality(Subscribers(show_subscribers, T))

\* C3: subscribing a registered connection whose transport accepts every send
\* leaves it registered and subscribed, with the topic's viewer count equal to
\* the number of subscribers, and a topic without a statistics record gets one
\* whose other counters are zero.
C3_SubscribeKeepsConnection ==
    [][\A c \in ConnIds, T \in Shows :
         (c \in active_connections /\ alive[c] /\ Subscribe(c, T)) =>
            /\ c \in active_connections'
            /\ c \in Subscribers(show_subscribers', T)
            /\ T \in subscribed_shows'[c]
            /\ T \in DOMAIN live_stats'
            /\ live_stats'[T].viewers_count =
                 Cardinality(Subscribers(show_subscribers', T))
            /\ T \notin DOMAIN live_stats =>
                 live_stats'[T] = [LiveStats EXCEPT !.viewers_count =
                                     Cardinality(Subscribers(show_subscribers', T))]
      ]_vars

\* C4: deregistering a connection identifier that is already deregistered changes
\* nothing, so two deregistrations leave the state one deregistration leaves,
\* whichever of _cleanup_connection and disconnect() performs each of them.
C4_DeregisterTwiceIsNoOp ==
    \A c \in ConnIds :
        /\ c \notin active_connections =>
             /\ CleanupConnection(Mgr, c) = Mgr
             /\ DisconnectMgr(Mgr, c) = Mgr
        /\ LET once == CleanupConnection(Mgr, c)
           IN /\ CleanupConnection(once, c) = once
              /\ DisconnectMgr(once, c) = once
        /\ LET once == DisconnectMgr(Mgr, c)
           IN /\ CleanupConnection(once, c) = once
              /\ DisconnectMgr(once, c) = once

\* a broadcast returned after cleaning up, for the second time, a connection that
\* its failed send had already cleaned up, while some topic still counts a viewer
C4_Witness ==
    /\ bcast.pc = "done"
    /\ \E c \in bcast.raised : InSeq(c, bcast.failed) /\ c \notin active_connections
    /\ \E T \in DOMAIN live_stats : live_stats[T].viewers_count >= 1

ExactlyOneCopy(b, c) ==
    /\ Len(b.got[c]) = 1
    /\ b.got[c][1].type = b.msg.type
    /\ b.got[c][1].show_id = b.show
    /\ b.got[c][1].timestamp # <<>>

FailedAreGone(b) ==
    \A c \in b.snapshot :
        InSeq(c, b.failed) =>
            /\ c \notin active_connections
            /\ \A T \in DOMAIN show_subscribers : c \notin show_subscribers[T]

C6_DeliversUpToTenPerSecond ==
    \A c \in active_connections :
        alive[c] => meter[c].delivered = Min(meter[c].sent, RateLimitPerSecond)

\* C7: when a failure of an enabled task is recorded, the task stays enabled if
\* fewer than maxFailures failures have been recorded in a row, and is disabled
\* if this is the maxFailures-th.
C7_DisabledExactlyAtThreshold ==
    [][\A t \in TaskIds :
         (tasks[t].enabled /\ JobFails(t)) =>
            (tasks'[t].enabled <=> streak'[t] < MaxFailures)
      ]_vars

\* a task has been disabled by its third failure in a row
C7_Witness ==
    \E t \in TaskIds :
        /\ ~tasks[t].enabled
        /\ streak[t] = MaxFailures
        /\ task_results[t] = "failed"

\* C8: a task disabled because its failure counter reached the threshold has no
\* next-run timestamp.
C8_NextRunUnsetWhenDisabled ==
    \A t \in TaskIds :
        (~tasks[t].enabled /\ tasks[t].failure_count >= MaxFailures) =>
            tasks[t].next_run = NoTime

\* C9: no task has two executions launched by the scheduler in flight at once.
C9_NoConcurrentExecutions ==
    \A t \in TaskIds : executions[t] <= 1

\* t2 was launched by an earlier tick than t1 and is still running and due: the
\* tick that launched t1 skipped it
C9_Witness ==
    /\ running_tasks = <<"t2", "t1">>
    /\ tasks["t2"].enabled
    /\ clock >= tasks["t2"].next_run
    /\ executions["t2"] = 1

\* C10: once stop() has returned, no task execution is in flight.
C10_StopLeavesNothingRunning ==
    stop.pc = "done" => \A t \in TaskIds : executions[t] = 0

\* C11: when stop() cancels a running execution, the task's result ends with
\* status cancelled, and its failure counter, enabled flag and next-run
\* timestamp are what they were.
C11_CancelledResultIsCancelled ==
    [][\A t \in TaskIds :
         JobCancelled(t) =>
            /\ task_results'[t] = "cancelled"
            /\ tasks'[t] = tasks[t]
      ]_vars

\* C12: a job that raises is recorded as failed and leaves the running set; the
\* scheduler keeps running and every other task keeps its enabled flag, counters,
\* next-run timestamp, result and running status.
C12_FailureIsContained ==
    [][\A t \in TaskIds :
         JobFails(t) =>
            /\ task_results'[t] = "failed"
            /\ ~InSeq(t, running_tasks')
            /\ scheduler_task' = scheduler_task
            /\ is_running' = is_running
            /\ \A u \in TaskIds \ {t} :
                 /\ tasks'[u] = tasks[u]
                 /\ task_results'[u] = task_results[u]
                 /\ executions'[u] = executions[u]
                 /\ InSeq(u, running_tasks') <=> InSeq(u, running_tasks)
      ]_vars

\* a job has failed while another task is running and the scheduler is alive
C12_Witness ==
    \E t \in TaskIds, u \in TaskIds :
        /\ t # u
        /\ task_results[t] = "failed"
        /\ ~InSeq(t, running_tasks)
        /\ InSeq(u, running_tasks)
        /\ task_results[u] = "running"
        /\ scheduler_task = "alive"

\* C13: when the execution of a task that has failed once succeeds, the failure
\* counter becomes 0 and next-run becomes the completion time plus the task's
\* interval.
C13_SuccessResumesCadence ==
    [][\A t \in TaskIds :
         (tasks[t].failure_count = 1 /\ JobSucceeds(t)) =>
            /\ tasks'[t].failure_count = 0
            /\ tasks'[t].next_run = clock + IntervalMinutes[t]
      ]_vars

\* a task that has failed once, whose backoff differs from its interval, was
\* launched again and its execution is about to complete
C13_Witness ==
    /\ tasks["t1"].failure_count = 1
    /\ streak["t1"] = 1
    /\ executions["t1"] = 1
    /\ task_results["t1"] = "running"
    /\ tasks["t1"].next_run # clock + IntervalMinutes["t1"]

\* C14: an execution is launched only for a task that is enabled, whose next-run
\* timestamp is set and not later than the current time, and that is not
\* executing.
C14_LaunchOnlyWhenDue ==
    [][\A t \in TaskIds :
         executions'[t] > executions[t] =>
            /\ tasks[t].enabled
            /\ tasks[t].next_run # NoTime
            /\ clock >= tasks[t].next_run
            /\ executions[t] = 0
            /\ ~InSeq(t, running_tasks)
      ]_vars

\* t1, rescheduled by a failure, was launched again by a tick at which t2 was due
\* and not executing; t2, disabled, has never been launched
C14_Witness ==
    /\ executions["t1"] = 1
    /\ tasks["t1"].failure_count = 1
    /\ task_results["t1"] = "running"
    /\ ~tasks["t2"].enabled
    /\ tasks["t2"].next_run <= tasks["t1"].next_run
    /\ task_results["t2"] = None
    /\ executions["t2"] = 0

\* C15: a manual trigger of a task's job leaves the task's next-run timestamp
\* unchanged and, once the job has finished, a Task Result is recorded for the
\* task.
C15_ManualTriggerRecordsResult ==
    [][\A t \in TaskIds :
         /\ TriggerMlUpdates(t) => tasks'[t].next_run = tasks[t].next_run
         /\ TriggerReturn(t) =>
              /\ tasks'[t].next_run = tasks[t].next_run
              /\ task_results'[t] # None
      ]_vars

\* the registered connections whose current identity is u
AuthenticatedAs(u) == {c \in active_connections : user_id[c] = u}

\* C16: whenever some live connection is authenticated as u, send_to_user(u)
\* attempts its one delivery, on a live connection authenticated as u.
C16_SendToUserReachesLiveConnection ==
    \A u \in Users :
        AuthenticatedAs(u) # {} =>
            /\ SendToUserTargets(u) # {}
            /\ SendToUserTargets(u) \subseteq AuthenticatedAs(u)

\* C17: a deregistered connection is in no subscriber set and no user identifier
\* maps to it.
C17_DeregisteredLeavesNoTrace ==
    \A c \in used \ active_connections :
        /\ \A T \in DOMAIN show_subscribers : c \notin show_subscribers[T]
        /\ \A u \in DOMAIN user_connections : user_connections[u] # c

Stale(c) == c \in active_connections /\ now - last_ping[c] > StaleSeconds

\* C18: a run of the sweep deregisters exactly the connections whose last
\* activity is more than the staleness threshold in the past, and a connection
\* that has become stale is eventually deregistered unless it shows activity.
C18_SweepRemovesExactlyStale ==
    /\ [][CleanupConnections =>
            \A c \in active_connections :
                (c \in active_connections') <=> (now - last_ping[c] <= StaleSeconds)
         ]_vars
    /\ \A c \in ConnIds : Stale(c) ~> ~Stale(c)

\* c1, which answered a ping through handle_ping while registered, has been
\* removed, which only the sweep does here; c2, idle for exactly the threshold,
\* is still registered
C18_Witness ==
    /\ "c1" \in used \ active_connections
    /\ last_pong["c1"] # <<>>
    /\ last_pong["c1"][1].timestamp # <<>>
    /\ "c2" \in active_connections
    /\ now - last_ping["c2"] = StaleSeconds

\* C19: an inbound ping that the endpoint receives on a registered connection
\* sets the connection's last activity to the current time and is answered with
\* a pong that carries a timestamp; and the sweep never deregisters a connection
\* whose last ping arrived within the staleness threshold.
C19_PingKeepsConnectionAlive ==
    [][\A c \in ConnIds :
         /\ (c \in active_connections /\ EndpointPing(c)) =>
              /\ last_ping'[c] = now
              /\ last_pong'[c] # <<>>
              /\ last_pong'[c][1].timestamp # <<>>
         /\ ( /\ CleanupConnections
              /\ c \in active_connections
              /\ pinged_at[c] # <<>>
              /\ now - pinged_at[c][1] <= StaleSeconds ) => c \in active_connections'
      ]_vars

\* C20: a heartbeat pass sends every subscriber with a healthy transport, of
\* every topic with subscribers, one live_stats message, and leaves that
\* subscriber registered and subscribed.
C20_HeartbeatServesSubscribers ==
    [][UpdateLiveStats =>
         \A T \in DOMAIN live_stats :
             \A c \in Subscribers(show_subscribers, T) :
                 (c \in active_connections /\ alive[c]) =>
                     /\ <<c, T>> \in hb_delivered'
                     /\ c \in active_connections'
                     /\ T \in subscribed_shows'[c]
                     /\ c \in Subscribers(show_subscribers', T)
      ]_vars

\* C21: a broadcast to a topic with zero subscribers transmits nothing, and when
\* the topic has a statistics record its counters are updated from the message
\* (an episode event counts as an event, a prediction as a prediction), both
\* when the subscribers have all left and after shutdown() cleared the maps.
Counted(old, new, type) ==
    /\ new.recent_events = old.recent_events + IF type = "episode_event" THEN 1 ELSE 0
    /\ new.active_predictions =
         old.active_predictions + IF type = "user_prediction" THEN 1 ELSE 0
    /\ new.total_points_awarded = old.total_points_awarded

C21_EmptyTopicBroadcastCountsStats ==
    [][(bcast.pc # "done" /\ bcast'.pc = "done" /\ bcast'.snapshot = {})
         => /\ \A c \in ConnIds : bcast'.got[c] = <<>>
            /\ bcast'.show \in DOMAIN live_stats
                 => /\ bcast'.show \in DOMAIN live_stats'
                    /\ Counted(live_stats[bcast'.show], live_stats'[bcast'.show],
                               bcast'.msg.type)]_vars

\* the half of C21 about a topic whose key is still in show_subscribers
C21_LeftTopicBroadcastCountsStats ==
    [][(bcast.pc = "sending" /\ bcast'.pc = "done" /\ bcast'.snapshot = {})
         => /\ \A c \in ConnIds : bcast'.got[c] = <<>>
            /\ bcast'.show \in DOMAIN live_stats
                 => Counted(live_stats[bcast'.show], live_stats'[bcast'.show],
                            bcast'.msg.type)]_vars

\* C22: a task registered with a "once" trigger is executed at most once: after
\* its execution completed successfully no later tick launches it again.
C22_OnceTaskRunsOnce ==
    [][\A t \in TaskIds :
         (schedule_type[t] = "once" /\ task_results[t] = "completed")
            => executions'[t] <= executions[t]]_vars

\* C23: when an execution fails and the incremented failure counter k is below
\* the threshold, the failure does not disable the task and next_run becomes the
\* failure time plus 2^k minutes: 2 after the first consecutive failure, 4 after
\* the second.
C23_BackoffDoubles ==
    [][\A t \in TaskIds :
         LET k == tasks[t].failure_count + 1
         IN (JobFails(t) /\ k < MaxFailures)
              => /\ tasks'[t].failure_count = k
                 /\ tasks'[t].enabled = tasks[t].enabled
                 /\ tasks'[t].next_run = clock + 2 ^ k
                 /\ k = 1 => tasks'[t].next_run = clock + 2
                 /\ k = 2 => tasks'[t].next_run = clock + 4]_vars

\* a task right after its second consecutive failure
C23_Witness ==
    \E t \in TaskIds :
        /\ tasks[t].enabled
        /\ tasks[t].failure_count = 2
        /\ streak[t] = 2
        /\ task_results[t] = "failed"
        /\ tasks[t].next_run = clock + 4

\* C24: a disabled task is launched by no tick; only enable_task makes it
\* enabled again, and enable_task sets it enabled, resets the failure counter to
\* 0 and recomputes next_run from the trigger; no task leaves the task table.
C24_DisabledUntilEnabled ==
    [][\A t \in TaskIds :
         /\ ~tasks[t].enabled => executions'[t] <= executions[t]
         /\ (~tasks[t].enabled /\ tasks'[t].enabled) => EnableTask(t)
         /\ EnableTask(t) => /\ tasks'[t].enabled
                             /\ tasks'[t].failure_count = 0
                             /\ tasks'[t].next_run = clock + IntervalMinutes[t]
         /\ DOMAIN tasks' = TaskIds]_vars

\* a task disabled at the threshold is due and idle in front of a live scheduler
C24_Witness ==
    \E t \in TaskIds :
        /\ ~tasks[t].enabled
        /\ tasks[t].failure_count = MaxFailures
        /\ streak[t] = MaxFailures
        /\ task_results[t] = "failed"
        /\ clock >= tasks[t].next_run
        /\ executions[t] = 0
        /\ ~InSeq(t, running_tasks)
        /\ is_running
        /\ scheduler_task = "alive"

\* C25: in a broadcast, a registered subscriber with a healthy transport whose
\* send is rejected by the rate limiter counts as a failed delivery: the pass
\* still attempts every subscriber of the snapshot, and when the broadcast
\* returns that subscriber is in no subscriber set and not registered.
RateLimitedInPass == bcast.healthy \ bcast.eligible

C25_RateLimitedIsDeregistered ==
    bcast.pc = "done"
       => /\ bcast.tried = bcast.snapshot
          /\ \A c \in RateLimitedInPass :
                /\ InSeq(c, bcast.failed)
                /\ c \notin active_connections
                /\ subscribed_shows[c] = {}
                /\ \A T \in Shows : c \notin Subscribers(show_subscribers, T)

\* a pass in which one subscriber was rate limited and another took the message
C25_Witness ==
    /\ bcast.pc = "done"
    /\ \E c \in RateLimitedInPass, d \in bcast.snapshot :
          /\ d # c
          /\ bcast.got[d] # <<>>
          /\ d \in active_connections

\* C26: when broadcast A to a topic is called before broadcast B to the same
\* topic, every connection that receives both messages receives A's first, also
\* when the two calls overlap.
C26_BroadcastsArriveInCallOrder ==
    \A c \in ConnIds :
        \A i, j \in 1..Len(inbox[c]) :
            (inbox[c][i] = "A" /\ inbox[c][j] = "B") => i < j

\* C27: a broadcast that is in flight when shutdown() begins, suspended in a
\* written send with subscribers still to go, delivers to those subscribers
\* before shutdown() closes a transport or removes a connection.
BroadcastSuspended ==
    /\ bcast.pc = "sending"
    /\ bcast.pending # {}
    /\ bcast.tried # {}
    /\ bcast.failed = <<>>

C27_MaintenanceCancelled ==
    shutdown.pc # "idle" => (cleanup_task = "cancelled" /\ stats_task = "cancelled")

\* C28: in every reachable state of the task runner each task's failure counter
\* is at most its threshold, and an enabled task's counter is strictly below it.
C28_FailureCounterBounded ==
    \A t \in TaskIds :
        /\ tasks[t].failure_count <= MaxFailures
        /\ tasks[t].enabled => tasks[t].failure_count < MaxFailures

\* one task stopped at the threshold while the other is one failure short of it
C28_Witness ==
    \E t \in TaskIds, u \in TaskIds :
        /\ ~tasks[t].enabled
        /\ tasks[t].failure_count = MaxFailures
        /\ streak[t] = MaxFailures
        /\ tasks[u].enabled
        /\ tasks[u].failure_count = MaxFailures - 1

\* C29: the first message sent in a wall-clock second to a registered connection
\* with a healthy transport is not rejected by the rate limiter, however long
\* ago the connection's previous messages were sent.
C29_FirstSendOfSecondPasses ==
    \A c \in active_connections :
        (alive[c] /\ meter[c].sent > 0) => meter[c].delivered > 0

\* C30: while the runner is running, whenever the next_run of an enabled
\* interval task with a reliable job has passed and the task is idle, the task is
\* eventually launched, and every launch is eventually followed by the task's
\* removal from the running set.
Due(t) ==
    /\ is_running
    /\ scheduler_task = "alive"
    /\ schedule_type[t] = "interval"
    /\ tasks[t].enabled
    /\ tasks[t].next_run # NoTime
    /\ clock >= tasks[t].next_run
    /\ ~InSeq(t, running_tasks)

C30_DueTaskIsLaunchedAndFinishes ==
    \A t \in Reliable :
        /\ Due(t) ~> InSeq(t, running_tasks)
        /\ InSeq(t, running_tasks) ~> ~InSeq(t, running_tasks)

\* a reliable task is running again after an earlier execution of it completed
C30_Witness ==
    \E t \in Reliable :
        /\ InSeq(t, running_tasks)
        /\ task_results[t] = "running"
        /\ tasks[t].next_run > IntervalMinutes[t]
        /\ clock >= tasks[t].next_run

====
